---------------------------- MODULE Spec2Model ----------------------------
(***************************************************************************)
(* Model of the Trips component (src/src/Components/Api/Trips.tsx): the    *)
(* mount-time fetch and its promise chain, the re-sort effect, the derived *)
(* values computed on every render (filteredTrips, currentTrips,           *)
(* totalPages), the rendered output and the handlers of the search box,    *)
(* the two selects and the pagination controls.                            *)
(***************************************************************************)
EXTENDS Integers, Sequences, FiniteSets, TLC

(***************************************************************************)
(* Bounds of the model.                                                    *)
(***************************************************************************)
\* length of the longest payload, a short base list of trips repeated
MaxTrips == 19
\* longest base list that is repeated
MaxBase == 2
\* longest payload drawn freely from the records that mix valid and invalid
\* dates
MaxShortLen == 3
\* the Next control is not clicked beyond this page number
MaxPage == 3
\* the Prev control is not clicked below -MaxUnder
MaxUnder == 1

(***************************************************************************)
(* Strings that the code inspects character by character are sequences of  *)
(* one-character strings; the others are TLA+ strings.                     *)
(***************************************************************************)
\* String.prototype.toLowerCase on one character of the model's alphabet
LowerChar(c) ==
    CASE c = "A" -> "a"
      [] c = "B" -> "b"
      [] OTHER -> c

\* String.prototype.toLowerCase
ToLowerCase(s) == [i \in 1..Len(s) |-> LowerChar(s[i])]

\* String.prototype.includes: sub occurs in s at some offset
Includes(s, sub) ==
    \E off \in 0..Len(s) :
        /\ off + Len(sub) <= Len(s)
        /\ \A i \in 1..Len(sub) : s[off + i] = sub[i]

(***************************************************************************)
(* Dates.  new Date(s).getTime() is a number of milliseconds or NaN; only  *)
(* differences of timestamps are used, so a valid timestamp is modelled by *)
(* its day number.  A JS number is [nan |-> BOOLEAN, v |-> Int].           *)
(***************************************************************************)
NaN == [nan |-> TRUE, v |-> 0]

Num(n) == [nan |-> FALSE, v |-> n]

\* new Date(checkInDate).getTime()
GetTime(d) ==
    CASE d = "2022-12-01T00:00:00.000Z" -> Num(1)
      [] d = "2022-12-02T00:00:00.000Z" -> Num(2)
      [] d = "2022-12-03T00:00:00.000Z" -> Num(3)
      [] OTHER -> NaN

\* the subtraction of two JS numbers
Minus(a, b) == IF a.nan \/ b.nan THEN NaN ELSE Num(a.v - b.v)

\* the comparator of the load-time sort
LoadCompare(a, b) == Minus(GetTime(a.checkInDate), GetTime(b.checkInDate))

\* a re-sort comparator that ignores sortOrder
EffectCompareAscendingOnly(a, b, order) ==
    Minus(GetTime(a.checkInDate), GetTime(b.checkInDate))

\* the comparator of the re-sort effect
EffectCompare(a, b, order) ==
    IF order = "ascending"
    THEN Minus(GetTime(a.checkInDate), GetTime(b.checkInDate))
    ELSE Minus(GetTime(b.checkInDate), GetTime(a.checkInDate))


\* SortCompare of Array.prototype.sort: the comparator's result, NaN read as +0.
\* cmp names the comparator: "load", or the sortOrder the effect closes over.
SortCompare(a, b, cmp) ==
    LET r == IF cmp = "load" THEN LoadCompare(a, b) ELSE EffectCompare(a, b, cmp)
    IN IF r.nan THEN 0 ELSE r.v

\* whether the comparator is a consistent comparator for the elements of list
\* (ECMAScript, Array.prototype.sort); if it is not, the order is
\* implementation-defined
ConsistentComparator(list, cmp) ==
    LET S == {list[i] : i \in 1..Len(list)}
        c(a, b) == SortCompare(a, b, cmp)
    IN \A a, b, d \in S :
          /\ (c(a, b) < 0) => (c(b, a) > 0)
          /\ (c(a, b) > 0) => (c(b, a) < 0)
          /\ (c(a, b) = 0 /\ c(b, d) = 0) => (c(a, d) = 0)
          /\ (c(a, b) < 0 /\ c(b, d) < 0) => (c(a, d) < 0)
          /\ (c(a, b) > 0 /\ c(b, d) > 0) => (c(a, d) > 0)

RECURSIVE InsertSorted(_, _, _)
\* x inserted into the sorted s behind every element that does not sort after it
InsertSorted(x, s, cmp) ==
    IF s = <<>> THEN <<x>>
    ELSE LET last == s[Len(s)]
         IN IF SortCompare(last, x, cmp) > 0
            THEN Append(InsertSorted(x, SubSeq(s, 1, Len(s) - 1), cmp), last)
            ELSE Append(s, x)

RECURSIVE StableSort(_, _)
\* the stable sort that Array.prototype.sort is for a consistent comparator
StableSort(list, cmp) ==
    IF list = <<>> THEN <<>>
    ELSE InsertSorted(list[Len(list)],
                      StableSort(SubSeq(list, 1, Len(list) - 1), cmp), cmp)

\* every rearrangement of list
Rearrangements(list) ==
    LET n == Len(list)
        P == {p \in [1..n -> 1..n] : \A i, j \in 1..n : p[i] = p[j] => i = j}
    IN {[i \in 1..n |-> list[p[i]]] : p \in P}

\* the results Array.prototype.sort can leave: the stable order, or, for an
\* inconsistent comparator (NaN between distinct timestamps), any order
SortOutcomes(list, cmp) ==
    IF ConsistentComparator(list, cmp)
    THEN {StableSort(list, cmp)}
    ELSE Rearrangements(list)

(***************************************************************************)
(* The payload of /trips.json.                                             *)
(***************************************************************************)
RawTrip(img, name, style, date) ==
    [heroImage |-> img, unitName |-> name, unitStyleName |-> style,
     checkInDate |-> date, unitId |-> img]

\* the two trips of the test's payload
TestRawTrips ==
    { RawTrip("example.jpg", <<"A", "b">>, "Style A", "2022-12-01T00:00:00.000Z"),
      RawTrip("example2.jpg", <<"b">>, "Style B", "2022-12-02T00:00:00.000Z") }

\* raw records whose checkInDate parses
ValidRawTrips ==
    TestRawTrips \cup
    { RawTrip("example3.jpg", <<"a">>, "All", "2022-12-01T00:00:00.000Z"),
      RawTrip("example4.jpg", <<"B", "a">>, "Style A", "2022-12-03T00:00:00.000Z") }

\* the test's trips and one whose checkInDate does not parse
MixedRawTrips ==
    TestRawTrips \cup { RawTrip("example5.jpg", <<"A">>, "Style B", "soon") }

SeqsUpTo(S, n) == UNION {[1..k -> S] : k \in 0..n}

\* base repeated up to length n
Cycle(base, n) == [i \in 1..n |-> base[((i - 1) % Len(base)) + 1]]

\* the tripSet arrays a response can carry: the short lists over the mixed
\* records, and each base list of valid records as it is and repeated to the
\* two greatest lengths
Payloads ==
    SeqsUpTo(MixedRawTrips, MaxShortLen)
    \cup UNION {{Cycle(b, n) : n \in {Len(b), MaxTrips - 1, MaxTrips}} :
                  b \in SeqsUpTo(ValidRawTrips, MaxBase) \ {<<>>}}

\* how the request ends: fetch rejects; the response has ok = false;
\* response.json() rejects; the body has no tripSet; the body has a tripSet
Outcomes == {"reject", "notOk", "jsonReject", "noTripSet", "ok"}

\* the search strings typed
Queries == {<<>>, <<"B">>, <<"a", "B">>}

SortOrders == {"ascending", "descending"}

NoError == "null"

FailText == "Failed to load data. Please try again later."

tripsPerPage == 9


(***************************************************************************)
(* Array helpers.                                                          *)
(***************************************************************************)
Max(a, b) == IF a >= b THEN a ELSE b

Min(a, b) == IF a <= b THEN a ELSE b

\* Array.prototype.slice(start, end): negative indices count from the end
Slice(list, start, end) ==
    LET len == Len(list)
        k == IF start < 0 THEN Max(len + start, 0) ELSE Min(start, len)
        final == IF end < 0 THEN Max(len + end, 0) ELSE Min(end, len)
    IN [i \in 1..Max(final - k, 0) |-> list[k + i]]

\* Math.ceil(a / b) for a >= 0, b > 0
CeilDiv(a, b) == IF a % b = 0 THEN a \div b ELSE (a \div b) + 1

RECURSIVE UniqueInOrder(_)
\* Array.from(new Set(list)): the distinct values in first-seen order
UniqueInOrder(list) ==
    IF list = <<>> THEN <<>>
    ELSE LET front == UniqueInOrder(SubSeq(list, 1, Len(list) - 1))
             x == list[Len(list)]
         IN IF \E i \in 1..Len(front) : front[i] = x THEN front
            ELSE Append(front, x)

\* the projection of a raw record to the four fields of a Trip
Simplify(trip) ==
    [heroImage |-> trip.heroImage, unitName |-> trip.unitName,
     unitStyleName |-> trip.unitStyleName, checkInDate |-> trip.checkInDate]

\* data.tripSet.map(...)
SimplifiedData(tripSet) == [i \in 1..Len(tripSet) |-> Simplify(tripSet[i])]

\* ["All", ...styles]
Styles(simplified) ==
    <<"All">> \o
    UniqueInOrder([i \in 1..Len(simplified) |-> simplified[i].unitStyleName])

(***************************************************************************)
(* The component's state.                                                  *)
(***************************************************************************)
VARIABLES
    pc,             \* where the mount-time promise chain stands
    response,       \* what the request will produce: [outcome, tripSet]
    thrown,         \* the rejection the chain carries to its catch handler
    logged,         \* what console.error was given
    trips, loading, error, sortOrder, unitStyles, selectedStyle, searchQuery,
    currentPage,
    resortPending   \* the re-sort effect is scheduled and has not run yet

vars == <<pc, response, thrown, logged, trips, loading, error, sortOrder,
          unitStyles, selectedStyle, searchQuery, currentPage, resortPending>>

(***************************************************************************)
(* Values derived on every render.                                         *)
(***************************************************************************)
MatchesStyle(trip, style) == style = "All" \/ trip.unitStyleName = style

\* a search that compares without lowering the case
MatchesSearchCaseSensitive(trip, query) == Includes(trip.unitName, query)

MatchesSearch(trip, query) ==
    Includes(ToLowerCase(trip.unitName), ToLowerCase(query))

RECURSIVE FilterTrips(_, _, _)
\* trips.filter(...)
FilterTrips(list, style, query) ==
    IF list = <<>> THEN <<>>
    ELSE LET front == FilterTrips(SubSeq(list, 1, Len(list) - 1), style, query)
             trip == list[Len(list)]
         IN IF MatchesStyle(trip, style) /\ MatchesSearch(trip, query)
            THEN Append(front, trip)
            ELSE front

filteredTrips == FilterTrips(trips, selectedStyle, searchQuery)

\* the slice of list shown as page number page
PageOf(list, page) ==
    LET indexOfLastTrip == page * tripsPerPage
        indexOfFirstTrip == indexOfLastTrip - tripsPerPage
    IN Slice(list, indexOfFirstTrip, indexOfLastTrip)

currentTrips == PageOf(filteredTrips, currentPage)

\* a page count that rounds down and adds one
PageCountFloorPlusOne(list) == (Len(list) \div tripsPerPage) + 1

PageCount(list) == CeilDiv(Len(list), tripsPerPage)

totalPages == PageCount(filteredTrips)

\* the disabled props of the pagination controls
FirstDisabled == currentPage = 1

PrevDisabled == currentPage = 1

NextDisabled == currentPage = totalPages

LastDisabled == currentPage = totalPages

\* which of the three returns of the render is taken
View ==
    IF loading THEN "Loading"
    ELSE IF error # NoError THEN "Failed"
    ELSE "Ready"

\* a trip's card: image source and alt text, title, style line, and the
\* check-in date (shown in the locale's format, here by the date it formats)
Card(trip) ==
    [alt |-> trip.unitName, title |-> trip.unitName,
     style |-> trip.unitStyleName, image |-> trip.heroImage,
     checkIn |-> trip.checkInDate]

\* the rendered output: the alert text, the cards, the controls
Rendered ==
    CASE View = "Loading" ->
           [alert |-> "Loading...", cards |-> <<>>, controls |-> FALSE,
            options |-> <<>>, pageItems |-> 0]
      [] View = "Failed" ->
           [alert |-> error, cards |-> <<>>, controls |-> FALSE,
            options |-> <<>>, pageItems |-> 0]
      [] OTHER ->
           [alert |-> "", controls |-> TRUE,
            cards |-> [i \in 1..Len(currentTrips) |-> Card(currentTrips[i])],
            options |-> unitStyles, pageItems |-> totalPages]


(***************************************************************************)
(* Construction: the state of the first render, both effects scheduled.    *)
(***************************************************************************)
Responses ==
    {[outcome |-> o, tripSet |-> <<>>] : o \in Outcomes \ {"ok"}}
    \cup {[outcome |-> "ok", tripSet |-> p] : p \in Payloads}

Init ==
    /\ pc = "mount"
    /\ response \in Responses
    /\ thrown = "none"
    /\ logged = "none"
    /\ trips = <<>>
    /\ loading = TRUE
    /\ error = NoError
    /\ sortOrder = "ascending"
    /\ unitStyles = <<>>
    /\ selectedStyle = "All"
    /\ searchQuery = <<>>
    /\ currentPage = 1
    /\ resortPending = TRUE

(***************************************************************************)
(* The effects of the mount: the fetch is issued, then the re-sort effect  *)
(* runs on the still empty list.                                           *)
(***************************************************************************)
\* a re-sort that stores the sorted filtered list
ResortTripsFiltered ==
    /\ trips' \in SortOutcomes(filteredTrips, sortOrder)
    /\ resortPending' = FALSE

\* the re-sort effect: setTrips([...trips].sort(...))
ResortTrips ==
    /\ trips' \in SortOutcomes(trips, sortOrder)
    /\ resortPending' = FALSE

MountEffects ==
    /\ pc = "mount"
    /\ pc' = "pending"
    /\ ResortTrips
    /\ UNCHANGED <<response, thrown, logged, loading, error, sortOrder,
                   unitStyles, selectedStyle, searchQuery, currentPage>>

(***************************************************************************)
(* The promise chain fetch(...).then(...).then(...).catch(...).            *)
(***************************************************************************)
FetchRejects ==
    /\ pc = "pending"
    /\ response.outcome = "reject"
    /\ pc' = "catch"
    /\ thrown' = "TypeError: Failed to fetch"
    /\ UNCHANGED <<response, logged, trips, loading, error, sortOrder,
                   unitStyles, selectedStyle, searchQuery, currentPage,
                   resortPending>>

FetchResolves ==
    /\ pc = "pending"
    /\ response.outcome # "reject"
    /\ pc' = "then1"
    /\ UNCHANGED <<response, thrown, logged, trips, loading, error, sortOrder,
                   unitStyles, selectedStyle, searchQuery, currentPage,
                   resortPending>>

\* a first then without the ok check
ResponseHandlerNoOkCheck ==
    /\ pc = "then1"
    /\ IF response.outcome = "jsonReject"
       THEN pc' = "catch" /\ thrown' = "SyntaxError"
       ELSE pc' = "then2" /\ thrown' = thrown
    /\ UNCHANGED <<response, logged, trips, loading, error, sortOrder,
                   unitStyles, selectedStyle, searchQuery, currentPage,
                   resortPending>>

\* the first then: the ok check and response.json()
ResponseHandler ==
    /\ pc = "then1"
    /\ IF response.outcome = "notOk"
       THEN pc' = "catch" /\ thrown' = "Error: Network response was not ok"
       ELSE IF response.outcome = "jsonReject"
       THEN pc' = "catch" /\ thrown' = "SyntaxError"
       ELSE pc' = "then2" /\ thrown' = thrown
    /\ UNCHANGED <<response, logged, trips, loading, error, sortOrder,
                   unitStyles, selectedStyle, searchQuery, currentPage,
                   resortPending>>

\* a second then that stores the list unsorted
LoadDataUnsorted ==
    LET simplifiedData == SimplifiedData(response.tripSet)
    IN /\ unitStyles' = Styles(simplifiedData)
       /\ trips' = simplifiedData
       /\ loading' = FALSE

\* the second then, for a body with a tripSet
LoadData ==
    LET simplifiedData == SimplifiedData(response.tripSet)
    IN /\ unitStyles' = Styles(simplifiedData)
       /\ trips' \in SortOutcomes(simplifiedData, "load")
       /\ loading' = FALSE

\* the second then: data.tripSet.map throws when there is no tripSet
DataHandler ==
    /\ pc = "then2"
    /\ IF response.outcome = "noTripSet"
       THEN /\ pc' = "catch"
            /\ thrown' = "TypeError"
            /\ UNCHANGED <<trips, loading, unitStyles>>
       ELSE /\ pc' = "done"
            /\ LoadData
            /\ thrown' = thrown
    /\ UNCHANGED <<response, logged, error, sortOrder, selectedStyle,
                   searchQuery, currentPage, resortPending>>

\* a catch handler that leaves loading set
CatchHandlerKeepsLoading ==
    /\ pc = "catch"
    /\ pc' = "done"
    /\ logged' = thrown
    /\ error' = FailText
    /\ UNCHANGED <<response, thrown, trips, loading, sortOrder, unitStyles,
                   selectedStyle, searchQuery, currentPage, resortPending>>

\* the catch handler
CatchHandler ==
    /\ pc = "catch"
    /\ pc' = "done"
    /\ logged' = thrown
    /\ error' = FailText
    /\ loading' = FALSE
    /\ UNCHANGED <<response, thrown, trips, sortOrder, unitStyles,
                   selectedStyle, searchQuery, currentPage, resortPending>>

(***************************************************************************)
(* The re-sort effect after a change of sortOrder.                         *)
(***************************************************************************)
ResortEffect ==
    /\ pc # "mount"
    /\ resortPending
    /\ ResortTrips
    /\ UNCHANGED <<pc, response, thrown, logged, loading, error, sortOrder,
                   unitStyles, selectedStyle, searchQuery, currentPage>>

(***************************************************************************)
(* The handlers of the controls, which exist only in the Ready view.       *)
(***************************************************************************)
SetSearchQuery(q) ==
    /\ View = "Ready"
    /\ searchQuery' = q
    /\ UNCHANGED <<pc, response, thrown, logged, trips, loading, error,
                   sortOrder, unitStyles, selectedStyle, currentPage,
                   resortPending>>

\* the effect of the previous change has been flushed before the next one is
\* rendered; a change to the same value schedules nothing
SetSortOrder(o) ==
    /\ View = "Ready"
    /\ ~resortPending
    /\ sortOrder' = o
    /\ resortPending' = (o # sortOrder)
    /\ UNCHANGED <<pc, response, thrown, logged, trips, loading, error,
                   unitStyles, selectedStyle, searchQuery, currentPage>>

\* the options of the select are the entries of unitStyles
SetSelectedStyle(st) ==
    /\ View = "Ready"
    /\ \E i \in 1..Len(unitStyles) : unitStyles[i] = st
    /\ selectedStyle' = st
    /\ UNCHANGED <<pc, response, thrown, logged, trips, loading, error,
                   sortOrder, unitStyles, searchQuery, currentPage,
                   resortPending>>

handlePageChange(pageNumber) ==
    /\ currentPage' = pageNumber
    /\ UNCHANGED <<pc, response, thrown, logged, trips, loading, error,
                   sortOrder, unitStyles, selectedStyle, searchQuery,
                   resortPending>>

ClickFirst ==
    /\ View = "Ready"
    /\ ~FirstDisabled
    /\ handlePageChange(1)

ClickPrev ==
    /\ View = "Ready"
    /\ ~PrevDisabled
    /\ currentPage - 1 >= 0 - MaxUnder
    /\ handlePageChange(currentPage - 1)

ClickItem(n) ==
    /\ View = "Ready"
    /\ n \in 1..totalPages
    /\ handlePageChange(n)

ClickNext ==
    /\ View = "Ready"
    /\ ~NextDisabled
    /\ currentPage + 1 <= MaxPage
    /\ handlePageChange(currentPage + 1)

ClickLast ==
    /\ View = "Ready"
    /\ ~LastDisabled
    /\ handlePageChange(totalPages)

Next ==
    \/ MountEffects
    \/ FetchRejects
    \/ FetchResolves
    \/ ResponseHandler
    \/ DataHandler
    \/ CatchHandler
    \/ ResortEffect
    \/ \E q \in Queries : SetSearchQuery(q)
    \/ \E o \in SortOrders : SetSortOrder(o)
    \/ \E st \in {"All", "Style A", "Style B"} : SetSelectedStyle(st)
    \/ ClickFirst
    \/ ClickPrev
    \/ \E n \in 1..MaxPage : ClickItem(n)
    \/ ClickNext
    \/ ClickLast

Spec == Init /\ [][Next]_vars

(***************************************************************************)
(* Properties.                                                             *)
(***************************************************************************)
\* how often x occurs in list
Count(list, x) == Cardinality({i \in 1..Len(list) : list[i] = x})

\* the trips of the payload as the component stores them
NormalizedPayload ==
    [i \in 1..Len(response.tripSet) |->
        [f \in {"heroImage", "unitName", "unitStyleName", "checkInDate"} |->
            response.tripSet[i][f]]]

AllDatesValid(list) ==
    \A i \in 1..Len(list) : ~GetTime(list[i].checkInDate).nan

\* list is in the order the sort order asks for
Ordered(list, order) ==
    \A i, j \in 1..Len(list) :
        i < j =>
            LET ti == GetTime(list[i].checkInDate).v
                tj == GetTime(list[j].checkInDate).v
            IN IF order = "ascending" THEN ti <= tj ELSE ti >= tj

\* C1: in every Ready state with totalPages >= 1, currentPage is within
\* [1, totalPages].
C1_PageInRange ==
    (View = "Ready" /\ totalPages >= 1) => currentPage \in 1..totalPages

\* C2: when the load has failed, whatever the cause, the view is Failed and
\* shows exactly the fixed text, without cards and without controls.
C2_FailedView ==
    (pc = "done" /\ response.outcome # "ok") =>
        /\ View = "Failed"
        /\ Rendered = [alert |-> "Failed to load data. Please try again later.",
                       cards |-> <<>>, controls |-> FALSE,
                       options |-> <<>>, pageItems |-> 0]

C2_Witness ==
    /\ pc = "done"
    /\ response.outcome = "jsonReject"
    /\ logged = "SyntaxError"
    /\ View = "Failed"

\* C3: the view starts as Loading and stays Loading until a continuation of
\* the fetch has run; it is then Ready or Failed, and once it has left
\* Loading no step changes it.
C3_LoadStateOnce ==
    /\ View = "Loading"
    /\ [](pc \in {"mount", "pending", "then1", "then2", "catch"}
             => (View = "Loading" /\ Rendered.alert = "Loading..."))
    /\ [](pc = "done" => View \in {"Ready", "Failed"})
    /\ [][View # "Loading" => View' = View]_vars

C3_Witness ==
    /\ pc = "done"
    /\ View = "Ready"
    /\ sortOrder = "descending"
    /\ ~resortPending
    /\ searchQuery # <<>>
    /\ selectedStyle # "All"
    /\ currentPage = 2

\* C4: after a successful load and with the selections at their defaults,
\* the view is Ready, the cards are min(9, n) trips of the payload, and every
\* trip of the payload that is earlier than the latest card is among the cards.
C4_FirstPageRendered ==
    (/\ pc = "done"
     /\ response.outcome = "ok"
     /\ selectedStyle = "All"
     /\ searchQuery = <<>>
     /\ currentPage = 1
     /\ sortOrder = "ascending"
     /\ ~resortPending)
    =>
    LET payload == NormalizedPayload
        wanted == [i \in 1..Len(payload) |-> Card(payload[i])]
        cards == Rendered.cards
        Time(c) == GetTime(c.checkIn).v
    IN /\ View = "Ready"
       /\ Len(cards) = Min(9, Len(payload))
       /\ \A i \in 1..Len(cards) : Count(cards, cards[i]) <= Count(wanted, cards[i])
       /\ AllDatesValid(payload) =>
            \A i \in 1..Len(wanted) :
                (\E j \in 1..Len(cards) : Time(wanted[i]) < Time(cards[j]))
                    => Count(cards, wanted[i]) = Count(wanted, wanted[i])

C4_Witness ==
    /\ pc = "done"
    /\ View = "Ready"
    /\ selectedStyle = "All" /\ searchQuery = <<>> /\ currentPage = 1
    /\ sortOrder = "ascending" /\ ~resortPending
    /\ Len(response.tripSet) > 9
    /\ Len(Rendered.cards) = 9
    /\ trips # NormalizedPayload

\* the two characters are the same letter
SameLetter(c, d) ==
    \/ c = d
    \/ {c, d} = {"a", "A"}
    \/ {c, d} = {"b", "B"}

\* name contains query, ignoring case
ContainsIgnoringCase(name, query) ==
    \E off \in 0..(Len(name) - Len(query)) :
        \A i \in 1..Len(query) : SameLetter(name[off + i], query[i])

\* C5: for the selected facet and the query typed, the filtered list is the subsequence of the
\* trip list of the entries of that facet (any, for "All") whose unitName
\* contains the query ignoring case (any, for the empty query).
C5_FilterIsSubsequence ==
    \A st \in {selectedStyle}, q \in {searchQuery} :
        LET Keeps(t) ==
                /\ st = "All" \/ t.unitStyleName = st
                /\ q = <<>> \/ ContainsIgnoringCase(t.unitName, q)
            filtered == FilterTrips(trips, st, q)
        IN /\ filtered = SelectSeq(trips, Keeps)
           /\ st # "All" =>
                \A i \in 1..Len(filtered) : filtered[i].unitStyleName = st
           /\ (st = "All" /\ q = <<>>) => filtered = trips

C5_Witness ==
    /\ View = "Ready"
    /\ selectedStyle = "Style A"
    /\ searchQuery = <<"a", "B">>
    /\ \E i \in 1..Len(filteredTrips) : filteredTrips[i].unitName = <<"A", "b">>
    /\ \E i \in 1..Len(trips) :
          trips[i].unitStyleName = "Style A" /\ trips[i].unitName = <<"B", "a">>
    /\ Len(filteredTrips) < Len(trips)

RECURSIVE ConcatPages(_, _)
\* pages 1..n of list, one after the other
ConcatPages(list, n) ==
    IF n <= 0 THEN <<>> ELSE ConcatPages(list, n - 1) \o PageOf(list, n)

\* C6: the pages 1..totalPages of the filtered list concatenate to it, none
\* holds more than 9 entries, and totalPages is ceil(filteredCount / 9).
C6_PagesPartition ==
    LET n == Len(filteredTrips)
    IN /\ ConcatPages(filteredTrips, totalPages) = filteredTrips
       /\ \A p \in 1..totalPages : Len(PageOf(filteredTrips, p)) <= 9
       /\ totalPages * 9 >= n
       /\ (totalPages - 1) * 9 < n

C6_Witness ==
    /\ View = "Ready"
    /\ totalPages = 2
    /\ Len(filteredTrips) = 10
    /\ Len(trips) = 19
    /\ currentPage = 2
    /\ Len(currentTrips) = 1

\* C7: in every Ready state, a navigation control that is enabled requests a
\* page within [1, totalPages].
C7_EnabledControlsInRange ==
    View = "Ready" =>
        /\ ~FirstDisabled => 1 \in 1..totalPages
        /\ ~PrevDisabled => (currentPage - 1) \in 1..totalPages
        /\ ~NextDisabled => (currentPage + 1) \in 1..totalPages
        /\ ~LastDisabled => totalPages \in 1..totalPages

\* C8: after a successful load the facet list is "All", once and first,
\* followed by the distinct unitStyleName values of the payload in first-seen
\* order.
C8_FacetList ==
    (pc = "done" /\ response.outcome = "ok") =>
        LET payload == NormalizedPayload
            FirstSeen(i) ==
                \A j \in 1..(i - 1) :
                    payload[j].unitStyleName # payload[i].unitStyleName
            firsts == SelectSeq([i \in 1..Len(payload) |-> i], FirstSeen)
        IN /\ Len(unitStyles) >= 1
           /\ unitStyles[1] = "All"
           /\ Count(unitStyles, "All") = 1
           /\ \A i \in 1..Len(unitStyles) : Count(unitStyles, unitStyles[i]) = 1
           /\ Tail(unitStyles) =
                 [k \in 1..Len(firsts) |-> payload[firsts[k]].unitStyleName]

\* C9: in the Ready state, once the re-sort effect has run, the trip list,
\* the filtered list and every page of it are in the order sortOrder asks
\* for, when the dates of the trips are valid.
C9_SortedAfterEffect ==
    (View = "Ready" /\ ~resortPending /\ AllDatesValid(trips)) =>
        /\ Ordered(trips, sortOrder)
        /\ Ordered(filteredTrips, sortOrder)
        /\ \A p \in 1..totalPages : Ordered(PageOf(filteredTrips, p), sortOrder)

C9_Witness ==
    /\ View = "Ready"
    /\ sortOrder = "descending"
    /\ ~resortPending
    /\ selectedStyle = "Style A"
    /\ Len(filteredTrips) >= 2
    /\ GetTime(filteredTrips[1].checkInDate).v
          > GetTime(filteredTrips[Len(filteredTrips)].checkInDate).v
    /\ currentPage = 2

\* C10: in the Ready state the stored trip list has the length and the
\* records of the normalized payload.
C10_TripsArePayload ==
    View = "Ready" =>
        /\ Len(trips) = Len(NormalizedPayload)
        /\ \A i \in 1..Len(trips) :
              Count(trips, trips[i]) = Count(NormalizedPayload, trips[i])

C10_Witness ==
    /\ View = "Ready"
    /\ sortOrder = "descending"
    /\ ~resortPending
    /\ trips # NormalizedPayload
    /\ selectedStyle = "Style B"
    /\ searchQuery = <<"B">>
    /\ 0 < Len(filteredTrips)
    /\ Len(filteredTrips) < Len(trips)
    /\ currentPage = 2

=============================================================================
